---- MODULE Spec2Model ----
(***************************************************************************)
(* A model of ehforwarderbot/message.py: the message value model EFBMsg,   *)
(* its attribute variants, the command value object and the two targets.   *)
(*                                                                         *)
(* Python values are pairs <<type, n>>: the name of the value's class and  *)
(* a number telling values of one class apart (for a list or a dict, the   *)
(* number is the reference of the object on the heap).  An exception is    *)
(* the name of its class; "None" stands for a call that returned.          *)
(***************************************************************************)
EXTENDS Integers, Sequences, FiniteSets, TLC

VARIABLES
    lists,      \* heap of list objects: reference -> items
    dicts,      \* heap of dict objects: reference -> set of <<key, value>>
    cmd,        \* cmd = EFBMsgCommand(...): the instance, NoCommand if it raised
    cattr,      \* cattr = EFBMsgCommandAttribute(...): the instance, or NoCommandAttribute
    given,      \* history: which caller containers the live instances were built from
    attr,       \* the instance the latest attribute/target-message constructor returned
    msg,        \* msg = EFBMsg(): the message the producer populates
    subs,       \* the caller's substitutions dict, in insertion order
    target,     \* target = EFBMsgTargetSubstitution(subs): the instance, or NoTarget
    last        \* the latest call: its name, its arguments, the exception it raised

vars == <<lists, dicts, cmd, cattr, given, attr, msg, subs, target, last>>

---------------------------------------------------------------------------
(* Bounds of the model *)

MaxLen == 2         \* items the caller's list holds at most
MaxEntries == 2     \* entries the caller's substitutions dict holds at most

---------------------------------------------------------------------------
(* Python values *)

None == <<"NoneType", 0>>

isinstance(v, t) == v[1] = t

Str(n) == <<"str", n>>
EmptyStr == Str(0)

\* The builtin function `callable`, which line 176 names.
BuiltinCallable == <<"builtin_function_or_method", 0>>

\* References of the list objects: the list the caller owns, the list a
\* Command holds in `args`, the list a CommandAttribute holds in `commands`.
CallerListRef == 1
CmdArgsRef == 2
AttrCommandsRef == 3
ListRefs == {CallerListRef, CmdArgsRef, AttrCommandsRef}

\* References of the dict objects: the caller's dict, a Command's `kwargs`.
CallerDictRef == 1
CmdKwargsRef == 2
DictRefs == {CallerDictRef, CmdKwargsRef}

CallerList == <<"list", CallerListRef>>
CallerDict == <<"dict", CallerDictRef>>

\* What a caller may append to its list: a plain value, or Command instances.
ListElems == {<<"int", 7>>, <<"EFBMsgCommand", 1>>}
KwKeys == {"x"}
KwValue == <<"int", 7>>

\* The items of a list value / dict value (None: nothing stored).
ListItems(v) == IF isinstance(v, "list") THEN lists[v[2]] ELSE << >>
DictItems(v) == IF isinstance(v, "dict") THEN dicts[v[2]] ELSE {}

---------------------------------------------------------------------------
(* The latest call *)

Call(op, args, exc) == [op |-> op, args |-> args, exc |-> exc]

CallerOps == {"list.append", "list.pop", "dict.__setitem__", "dict.__delitem__"}

---------------------------------------------------------------------------
(* How Python instantiates a class, and the two abstract bases *)

\* Lines 81-82 and 234-235: `__init__` is an abstractmethod of the two bases;
\* every subclass defines its own `__init__`, which overrides it.
AbstractMethods(cls) ==
    IF cls \in {"EFBMsgAttribute", "EFBMsgTarget"} THEN {"__init__"} ELSE {}

\* Lines 83 and 236: the body of the abstract `__init__`.
EFBMsgAttribute_init == "NotImplementedError"
EFBMsgTarget_init == "NotImplementedError"

\* cls(): a class deriving from ABC with abstract methods left is refused by
\* object.__new__ with TypeError before `__init__` runs; `init_exc` is what
\* `__init__` raises when it does run.
Instantiate(cls, init_exc) ==
    IF AbstractMethods(cls) # {} THEN "TypeError" ELSE init_exc

---------------------------------------------------------------------------
(* EFBMsgCommand *)

NoCommand == [cls |-> "NoneType", name |-> None, callable |-> None,
              args |-> None, kwargs |-> None]

\* Lines 163-174: the defaults and the four isinstance checks, in order.
EFBMsgCommand_check(name, callable_name, args, kwargs) ==
    LET args1 == IF args = None THEN <<"list", CmdArgsRef>> ELSE args
        kwargs1 == IF kwargs = None THEN <<"dict", CmdKwargsRef>> ELSE kwargs
    IN  IF ~isinstance(name, "str") THEN "TypeError"
        ELSE IF ~isinstance(callable_name, "str") THEN "TypeError"
        ELSE IF ~isinstance(args1, "list") THEN "TypeError"
        ELSE IF ~isinstance(kwargs1, "dict") THEN "TypeError"
        ELSE "None"

\* Line 176: `self.callable = callable` stores the builtin, not the parameter
\* `callable_name`.
EFBMsgCommand_callable(callable_name) == BuiltinCallable

\* list.copy() / dict.copy(): the reference of the result, a new object
\* `fresh`, never the object `src` it copies.
copy_alias(src, fresh) == src
copy(src, fresh) == fresh

\* cmd = EFBMsgCommand(name, callable_name, args, kwargs)
EFBMsgCommand_init(name, callable_name, args, kwargs) ==
    LET exc == EFBMsgCommand_check(name, callable_name, args, kwargs)
        \* `args = list()` / `kwargs = dict()` make a new, empty object
        asrc == IF args = None THEN CmdArgsRef ELSE args[2]
        ksrc == IF kwargs = None THEN CmdKwargsRef ELSE kwargs[2]
        aitems == IF args = None THEN << >> ELSE lists[asrc]
        kitems == IF kwargs = None THEN {} ELSE dicts[ksrc]
        aref == copy(asrc, CmdArgsRef)
        kref == copy(ksrc, CmdKwargsRef)
    IN  /\ last' = Call("EFBMsgCommand", <<name, callable_name, args, kwargs>>, exc)
        /\ IF exc = "None"
           THEN /\ cmd' = [cls |-> "EFBMsgCommand",
                           name |-> name,
                           callable |-> EFBMsgCommand_callable(callable_name),
                           args |-> <<"list", aref>>,
                           kwargs |-> <<"dict", kref>>]
                /\ lists' = [[lists EXCEPT ![CmdArgsRef] = << >>] EXCEPT ![aref] = aitems]
                /\ dicts' = [[dicts EXCEPT ![CmdKwargsRef] = {}] EXCEPT ![kref] = kitems]
                /\ given' = [given EXCEPT !.args = (args = CallerList),
                                          !.kwargs = (kwargs = CallerDict)]
           ELSE /\ cmd' = NoCommand
                /\ lists' = [lists EXCEPT ![CmdArgsRef] = << >>]
                /\ dicts' = [dicts EXCEPT ![CmdKwargsRef] = {}]
                /\ given' = [given EXCEPT !.args = FALSE, !.kwargs = FALSE]
        /\ UNCHANGED <<cattr, attr, msg, subs, target>>

---------------------------------------------------------------------------
(* EFBMsgCommandAttribute *)

NoCommandAttribute == [cls |-> "NoneType", commands |-> None]

\* Lines 198-199: a list, not empty, of EFBMsgCommand instances only.
EFBMsgCommandAttribute_valid_noempty(commands) ==
    /\ isinstance(commands, "list")
    /\ \A i \in 1..Len(lists[commands[2]]) :
           isinstance(lists[commands[2]][i], "EFBMsgCommand")
EFBMsgCommandAttribute_valid(commands) ==
    /\ isinstance(commands, "list")
    /\ Len(lists[commands[2]]) > 0
    /\ \A i \in 1..Len(lists[commands[2]]) :
           isinstance(lists[commands[2]][i], "EFBMsgCommand")

\* cattr = EFBMsgCommandAttribute(commands)
EFBMsgCommandAttribute_init(commands) ==
    LET exc == Instantiate("EFBMsgCommandAttribute",
                   IF EFBMsgCommandAttribute_valid(commands)
                   THEN "None" ELSE "ValueError")
        ok == exc = "None"
        ref == IF ok THEN copy(commands[2], AttrCommandsRef) ELSE AttrCommandsRef
    IN  /\ last' = Call("EFBMsgCommandAttribute", <<commands>>, exc)
        /\ IF ok
           THEN /\ cattr' = [cls |-> "EFBMsgCommandAttribute",
                             commands |-> <<"list", ref>>]
                /\ lists' = [[lists EXCEPT ![AttrCommandsRef] = << >>]
                                EXCEPT ![ref] = lists[commands[2]]]
                /\ given' = [given EXCEPT !.commands = (commands = CallerList)]
           ELSE /\ cattr' = NoCommandAttribute
                /\ lists' = [lists EXCEPT ![AttrCommandsRef] = << >>]
                /\ given' = [given EXCEPT !.commands = FALSE]
        /\ UNCHANGED <<dicts, cmd, attr, msg, subs, target>>

---------------------------------------------------------------------------
(* The caller's own containers, which it goes on mutating *)

CallerAppend(e) ==
    /\ Len(lists[CallerListRef]) < MaxLen
    /\ lists' = [lists EXCEPT ![CallerListRef] = Append(@, e)]
    /\ last' = Call("list.append", <<e>>, "None")
    /\ UNCHANGED <<dicts, cmd, cattr, given, attr, msg, subs, target>>

CallerPop ==
    /\ Len(lists[CallerListRef]) > 0
    /\ lists' = [lists EXCEPT ![CallerListRef] = SubSeq(@, 1, Len(@) - 1)]
    /\ last' = Call("list.pop", << >>, "None")
    /\ UNCHANGED <<dicts, cmd, cattr, given, attr, msg, subs, target>>

CallerSetItem(k) ==
    /\ dicts' = [dicts EXCEPT ![CallerDictRef] =
                    {p \in @ : p[1] # k} \cup {<<k, KwValue>>}]
    /\ last' = Call("dict.__setitem__", << >>, "None")
    /\ UNCHANGED <<lists, cmd, cattr, given, attr, msg, subs, target>>

CallerDelItem(k) ==
    /\ \E p \in dicts[CallerDictRef] : p[1] = k
    /\ dicts' = [dicts EXCEPT ![CallerDictRef] = {p \in @ : p[1] # k}]
    /\ last' = Call("dict.__delitem__", << >>, "None")
    /\ UNCHANGED <<lists, cmd, cattr, given, attr, msg, subs, target>>

---------------------------------------------------------------------------
(* Specification of the command component *)

InitCommand ==
    /\ lists = [r \in ListRefs |-> << >>]
    /\ dicts = [r \in DictRefs |-> {}]
    /\ cmd = NoCommand
    /\ cattr = NoCommandAttribute

NameArgs == {Str(1), <<"int", 7>>}
CallableArgs == {Str(2), <<"int", 7>>}
ArgsArgs == {None, CallerList, <<"tuple", 0>>}
KwargsArgs == {None, CallerDict, <<"tuple", 0>>}
CommandsArgs == {CallerList, CallerDict, None}

DoCommand ==
    \E name \in NameArgs, callable_name \in CallableArgs,
       args \in ArgsArgs, kwargs \in KwargsArgs :
        EFBMsgCommand_init(name, callable_name, args, kwargs)

DoCommandAttribute ==
    \E commands \in CommandsArgs : EFBMsgCommandAttribute_init(commands)

DoCallerAppend == \E e \in ListElems : CallerAppend(e)
DoCallerSetItem == \E k \in KwKeys : CallerSetItem(k)
DoCallerDelItem == \E k \in KwKeys : CallerDelItem(k)

---------------------------------------------------------------------------
(* EFBMsgAttribute and EFBMsgTarget constructed directly *)

NoAttr == [cls |-> "NoneType", title |-> None, description |-> None,
           image |-> None, url |-> None, latitude |-> None, longitude |-> None,
           status_type |-> None, message |-> None]

\* attr = EFBMsgAttribute()
EFBMsgAttribute_new ==
    /\ last' = Call("EFBMsgAttribute", << >>,
                    Instantiate("EFBMsgAttribute", EFBMsgAttribute_init))
    /\ attr' = NoAttr
    /\ UNCHANGED <<lists, dicts, cmd, cattr, given, msg, subs, target>>

\* attr = EFBMsgTarget()
EFBMsgTarget_new ==
    /\ last' = Call("EFBMsgTarget", << >>,
                    Instantiate("EFBMsgTarget", EFBMsgTarget_init))
    /\ attr' = NoAttr
    /\ UNCHANGED <<lists, dicts, cmd, cattr, given, msg, subs, target>>

---------------------------------------------------------------------------
(* EFBMsgLinkAttribute, EFBMsgLocationAttribute, EFBMsgStatusAttribute,     *)
(* EFBMsgTargetMessage                                                     *)

\* Lines 110-111.
EFBMsgLinkAttribute_check_title(title, url) ==
    IF title = None THEN "ValueError" ELSE "None"
EFBMsgLinkAttribute_check(title, url) ==
    IF title = None \/ url = None THEN "ValueError" ELSE "None"

\* attr = EFBMsgLinkAttribute(title=, description=, image=, url=)
EFBMsgLinkAttribute_init(title, description, image, url) ==
    LET exc == Instantiate("EFBMsgLinkAttribute",
                           EFBMsgLinkAttribute_check(title, url))
    IN  /\ last' = Call("EFBMsgLinkAttribute", <<title, description, image, url>>, exc)
        /\ attr' = IF exc = "None"
                   THEN [NoAttr EXCEPT !.cls = "EFBMsgLinkAttribute",
                                       !.title = title,
                                       !.description = description,
                                       !.image = image,
                                       !.url = url]
                   ELSE NoAttr
        /\ UNCHANGED <<lists, dicts, cmd, cattr, given, msg, subs, target>>

\* attr = EFBMsgLocationAttribute(latitude, longitude)
EFBMsgLocationAttribute_init(latitude, longitude) ==
    LET exc == Instantiate("EFBMsgLocationAttribute", "None")
    IN  /\ last' = Call("EFBMsgLocationAttribute", <<latitude, longitude>>, exc)
        /\ attr' = IF exc = "None"
                   THEN [NoAttr EXCEPT !.cls = "EFBMsgLocationAttribute",
                                       !.latitude = latitude,
                                       !.longitude = longitude]
                   ELSE NoAttr
        /\ UNCHANGED <<lists, dicts, cmd, cattr, given, msg, subs, target>>

\* Lines 223-227: the status constants, strings.
TYPING == Str(11)
UPLOADING_FILE == Str(12)
UPLOADING_IMAGE == Str(13)
UPLOADING_AUDIO == Str(14)
UPLOADING_VIDEO == Str(15)

\* attr = EFBMsgStatusAttribute(status_type)
EFBMsgStatusAttribute_init(status_type) ==
    LET exc == Instantiate("EFBMsgStatusAttribute", "None")
    IN  /\ last' = Call("EFBMsgStatusAttribute", <<status_type>>, exc)
        /\ attr' = IF exc = "None"
                   THEN [NoAttr EXCEPT !.cls = "EFBMsgStatusAttribute",
                                       !.status_type = status_type]
                   ELSE NoAttr
        /\ UNCHANGED <<lists, dicts, cmd, cattr, given, msg, subs, target>>

\* attr = EFBMsgTargetMessage(message)
EFBMsgTargetMessage_init(message) ==
    LET exc == Instantiate("EFBMsgTargetMessage", "None")
    IN  /\ last' = Call("EFBMsgTargetMessage", <<message>>, exc)
        /\ attr' = IF exc = "None"
                   THEN [NoAttr EXCEPT !.cls = "EFBMsgTargetMessage",
                                       !.message = message]
                   ELSE NoAttr
        /\ UNCHANGED <<lists, dicts, cmd, cattr, given, msg, subs, target>>

InitAttribute == attr = NoAttr

TitleArgs == {None, EmptyStr, Str(1), Str(2)}
OptionalArgs == {None, Str(3), Str(4)}
CoordArgs == {<<"float", -91>>, <<"float", 0>>, <<"float", 181>>}
StatusArgs == {TYPING, UPLOADING_FILE, UPLOADING_IMAGE, UPLOADING_AUDIO,
               UPLOADING_VIDEO, Str(1)}
MsgRef == <<"EFBMsg", 1>>
MessageArgs == {MsgRef, None}

DoLinkAttribute ==
    \E title \in TitleArgs, description \in OptionalArgs,
       image \in OptionalArgs, url \in TitleArgs :
        EFBMsgLinkAttribute_init(title, description, image, url)

DoLocationAttribute ==
    \E latitude \in CoordArgs, longitude \in CoordArgs :
        EFBMsgLocationAttribute_init(latitude, longitude)

DoStatusAttribute ==
    \E status_type \in StatusArgs : EFBMsgStatusAttribute_init(status_type)

DoTargetMessage ==
    \E message \in MessageArgs : EFBMsgTargetMessage_init(message)

---------------------------------------------------------------------------
(* EFBMsg *)

\* ChatType and MsgType members that message.py names (lines 61, 62, 306).
ChatTypeUser == <<"ChatType", 1>>
ChatTypeGroup == <<"ChatType", 2>>
MsgTypeText == <<"MsgType", 1>>

True == <<"bool", 1>>
False == <<"bool", 0>>

\* An attribute name the instance's __dict__ does not hold: reading it
\* raises AttributeError.
Absent == <<"<absent>", 0>>

\* Lines 60-77: the instance EFBMsg() returns.  `__init__` assigns the first
\* seventeen attributes; `is_chat` and `chat_type`, which lines 305-306 read,
\* are not among them.
EFBMsg_init ==
    [cls |-> "EFBMsg",
     source |-> ChatTypeUser,
     type |-> MsgTypeText,
     member |-> None,
     origin |-> None,
     destination |-> None,
     target |-> None,
     uid |-> None,
     text |-> "",
     url |-> None,
     path |-> None,
     file |-> None,
     mime |-> None,
     filename |-> None,
     attributes |-> None,
     is_system |-> FALSE,
     edit |-> FALSE,
     vendor_specific |-> {},
     is_chat |-> Absent,
     chat_type |-> Absent]

\* msg = EFBMsg()
EFBMsg_new ==
    /\ msg' = EFBMsg_init
    /\ last' = Call("EFBMsg", << >>, "None")
    /\ UNCHANGED <<lists, dicts, cmd, cattr, given, attr, subs, target>>

\* msg.<field> = value: the producing back-end populates the message by
\* direct assignment; nothing in EFBMsg intercepts it.
SetAttr(field, value) ==
    /\ msg' = [msg EXCEPT ![field] = value]
    /\ last' = Call("setattr", <<field>>, "None")
    /\ UNCHANGED <<lists, dicts, cmd, cattr, given, attr, subs, target>>

---------------------------------------------------------------------------
(* EFBMsgTargetSubstitution *)

\* A key of the substitutions dict is <<kind, components>>: a tuple with its
\* components, or a value of another kind.
Tuple(comps) == <<"tuple", comps>>
PyInt(n) == <<"int", n>>

\* Lines 298-299: a tuple, of length 2, of two ints, the first less than
\* the second.
EFBMsgTargetSubstitution_key_ok(i) ==
    /\ i[1] = "tuple"
    /\ Len(i[2]) = 2
    /\ isinstance(i[2][1], "int")
    /\ isinstance(i[2][2], "int")
    /\ i[2][1][2] < i[2][2][2]

\* "... %s ..." % i (lines 300, 303, 307): a tuple on the right of % is the
\* tuple of the format's arguments, and the format has one %s; so with i a
\* tuple of any length but 1 the formatting itself raises TypeError.
PercentFormat(i) ==
    IF i[1] = "tuple" /\ Len(i[2]) # 1 THEN "TypeError" ELSE "None"

\* raise exc("... %s ..." % i): the message is formatted before exc is made.
RaiseFormatted(exc, i) ==
    IF PercentFormat(i) # "None" THEN PercentFormat(i) ELSE exc

\* Lines 298-307: what one entry of the dict raises, "None" if it is let pass.
EFBMsgTargetSubstitution_entry(i, v) ==
    IF ~EFBMsgTargetSubstitution_key_ok(i) THEN RaiseFormatted("TypeError", i)
    ELSE IF v.cls # "EFBMsg" THEN RaiseFormatted("TypeError", i)
    ELSE IF v.is_chat = Absent THEN "AttributeError"
    ELSE IF v.is_chat # True THEN "None"
    ELSE IF v.chat_type = Absent THEN "AttributeError"
    ELSE IF v.chat_type = ChatTypeGroup THEN RaiseFormatted("ValueError", i)
    ELSE "None"

\* Lines 297-307: the loop over the dict, in its iteration order; the first
\* entry that raises ends it.
RECURSIVE EFBMsgTargetSubstitution_loop(_)
EFBMsgTargetSubstitution_loop(entries) ==
    IF entries = << >> THEN "None"
    ELSE LET exc == EFBMsgTargetSubstitution_entry(Head(entries)[1], Head(entries)[2])
         IN  IF exc # "None" THEN exc
             ELSE EFBMsgTargetSubstitution_loop(Tail(entries))

\* The caller's substitutions dict, and the reference of the instance.
SubsDictRef == 3
SubsDict == <<"dict", SubsDictRef>>
TargetRef == <<"EFBMsgTargetSubstitution", 1>>

NoTarget == [cls |-> "NoneType", substitutions |-> None]

\* target = EFBMsgTargetSubstitution(substitutions)
EFBMsgTargetSubstitution_init(substitutions) ==
    LET exc == Instantiate("EFBMsgTargetSubstitution",
                   IF ~isinstance(substitutions, "dict") THEN "TypeError"
                   ELSE EFBMsgTargetSubstitution_loop(subs))
    IN  /\ last' = Call("EFBMsgTargetSubstitution", <<substitutions>>, exc)
        /\ target' = IF exc = "None"
                     THEN [cls |-> "EFBMsgTargetSubstitution",
                           substitutions |-> substitutions]
                     ELSE NoTarget
        /\ given' = [given EXCEPT !.untouched = (exc = "None")]
        /\ UNCHANGED <<lists, dicts, cmd, cattr, attr, msg, subs>>

\* subs[key] = value: a new key goes last, a key already there keeps its place.
CallerSubsSet(key, value) ==
    /\ \/ \E n \in 1..Len(subs) : subs[n][1] = key
       \/ Len(subs) < MaxEntries
    /\ subs' = IF \E n \in 1..Len(subs) : subs[n][1] = key
               THEN [n \in 1..Len(subs) |->
                        IF subs[n][1] = key THEN <<key, value>> ELSE subs[n]]
               ELSE Append(subs, <<key, value>>)
    /\ last' = Call("subs.__setitem__", << >>, "None")
    /\ given' = [given EXCEPT !.untouched = FALSE]
    /\ UNCHANGED <<lists, dicts, cmd, cattr, attr, msg, target>>

\* subs.clear()
CallerSubsClear ==
    /\ subs # << >>
    /\ subs' = << >>
    /\ last' = Call("subs.clear", << >>, "None")
    /\ given' = [given EXCEPT !.untouched = FALSE]
    /\ UNCHANGED <<lists, dicts, cmd, cattr, attr, msg, target>>

InitMessage ==
    /\ msg = EFBMsg_init
    /\ subs = << >>
    /\ target = NoTarget
    /\ last = Call("EFBMsg", << >>, "None")

\* The values a caller puts in the dict: messages as EFBMsg() makes them and
\* as a producer populates them, with or without the attributes of a chat,
\* and an object of another class.
UserMessage == EFBMsg_init
GroupMessage == [EFBMsg_init EXCEPT !.source = ChatTypeGroup]
UserChatMessage == [EFBMsg_init EXCEPT !.is_chat = False, !.chat_type = ChatTypeUser]
GroupChatMessage == [EFBMsg_init EXCEPT !.source = ChatTypeGroup,
                                        !.is_chat = True,
                                        !.chat_type = ChatTypeGroup]
ChatObject == [EFBMsg_init EXCEPT !.cls = "EFBChat",
                                  !.is_chat = True,
                                  !.chat_type = ChatTypeUser]
SubsValues == {UserMessage, GroupMessage, UserChatMessage, GroupChatMessage, ChatObject}

SubsKeys == {Tuple(<<PyInt(0), PyInt(2)>>), Tuple(<<PyInt(-1), PyInt(1)>>),
             Tuple(<<PyInt(2), PyInt(0)>>), Tuple(<<PyInt(1), PyInt(1)>>),
             Tuple(<<PyInt(0), <<"float", 2>> >>), Tuple(<<PyInt(7)>>),
             Tuple(<<PyInt(0), PyInt(1), PyInt(2)>>), <<"str", << >> >>}

Texts == {"", "ab"}
ChatArgs == {None, <<"EFBChat", 1>>}

DoSubsSet == \E key \in SubsKeys, value \in SubsValues : CallerSubsSet(key, value)

DoTargetSubstitution ==
    \E substitutions \in {SubsDict, None} : EFBMsgTargetSubstitution_init(substitutions)

DoSetText == \E value \in Texts : SetAttr("text", value)

DoSetTarget ==
    \/ /\ target # NoTarget
       /\ SetAttr("target", TargetRef)
    \/ SetAttr("target", None)

DoSetChat ==
    \E field \in {"origin", "destination", "member"}, value \in ChatArgs :
        SetAttr(field, value)

DoSetFlag ==
    \E field \in {"is_system", "edit"}, value \in BOOLEAN : SetAttr(field, value)

DoSetOptional ==
    \E field \in {"uid", "url"}, value \in {None, Str(1)} : SetAttr(field, value)

---------------------------------------------------------------------------
(* Specifications: the whole module, and one for each of its independent   *)
(* parts (no part reads or writes the state of another)                    *)

Init ==
    /\ InitCommand
    /\ given = [args |-> FALSE, kwargs |-> FALSE, commands |-> FALSE,
                untouched |-> FALSE]
    /\ InitAttribute
    /\ InitMessage

NextCommand ==
    \/ DoCommand
    \/ DoCommandAttribute
    \/ DoCallerAppend
    \/ CallerPop
    \/ DoCallerSetItem
    \/ DoCallerDelItem

NextAttribute ==
    \/ EFBMsgAttribute_new
    \/ EFBMsgTarget_new
    \/ DoLinkAttribute
    \/ DoLocationAttribute
    \/ DoStatusAttribute
    \/ DoTargetMessage

NextMessage ==
    \/ EFBMsg_new
    \/ DoSetText
    \/ DoSetChat
    \/ DoSetFlag
    \/ DoSetOptional

NextTarget ==
    \/ DoSubsSet
    \/ CallerSubsClear
    \/ DoTargetSubstitution
    \/ EFBMsg_new
    \/ DoSetText
    \/ DoSetTarget

Next == NextCommand \/ NextAttribute \/ NextMessage \/ NextTarget

Spec == Init /\ [][Next]_vars
SpecCommand == Init /\ [][NextCommand]_vars
SpecAttribute == Init /\ [][NextAttribute]_vars
SpecMessage == Init /\ [][NextMessage]_vars
SpecTarget == Init /\ [][NextTarget]_vars

---------------------------------------------------------------------------
(* The claims *)

\* C1: after a Command(name, callable, args, kwargs) that succeeds, the
\* stored name is the supplied name, the stored callable is the supplied
\* callable identifier, and the stored args and kwargs hold what the
\* supplied ones hold (nothing when omitted).
C1_CommandStoresArguments ==
    (last.op = "EFBMsgCommand" /\ last.exc = "None") =>
        /\ cmd.cls = "EFBMsgCommand"
        /\ cmd.name = last.args[1]
        /\ cmd.callable = last.args[2]
        /\ ListItems(cmd.args) = ListItems(last.args[3])
        /\ DictItems(cmd.kwargs) = DictItems(last.args[4])

\* A range key as the specification defines it: exactly two integers
\* (start, end) with start < end.
RangeKey(k) ==
    /\ k[1] = "tuple"
    /\ Len(k[2]) = 2
    /\ k[2][1][1] = "int"
    /\ k[2][2][1] = "int"
    /\ k[2][1][2] < k[2][2][2]

IsMessage(v) == v.cls = "EFBMsg"

\* A message of a group chat: its source is a group, or it carries the
\* attributes of a chat and they say group.
DenotesGroup(v) ==
    \/ v.source = ChatTypeGroup
    \/ (v.is_chat = True /\ v.chat_type = ChatTypeGroup)

SubstitutionCalled == last.op = "EFBMsgTargetSubstitution" /\ last.args[1] = SubsDict

\* C2: TargetSubstitution(mapping) succeeds and stores the mapping whenever
\* every key is a range key and every value is a Message that does not
\* denote a group chat.
C2_NonGroupMessagesAccepted ==
    (/\ SubstitutionCalled
     /\ \A n \in 1..Len(subs) :
            /\ RangeKey(subs[n][1])
            /\ IsMessage(subs[n][2])
            /\ ~DenotesGroup(subs[n][2]))
    => /\ last.exc = "None"
       /\ target.cls = "EFBMsgTargetSubstitution"
       /\ target.substitutions = SubsDict

\* C3: TargetSubstitution(mapping) fails with ValueError (the
\* specification's ValidationError), and yields no instance, whenever the
\* keys are range keys and some value among the Message values denotes a
\* group chat.
C3_GroupValueIsValidationError ==
    (/\ SubstitutionCalled
     /\ \A n \in 1..Len(subs) : RangeKey(subs[n][1]) /\ IsMessage(subs[n][2])
     /\ \E n \in 1..Len(subs) : DenotesGroup(subs[n][2]))
    => /\ last.exc = "ValueError"
       /\ target = NoTarget

HasInvalidKey == \E n \in 1..Len(subs) : ~RangeKey(subs[n][1])

\* C4: TargetSubstitution(mapping) fails with TypeError whenever some key
\* is no range key, whatever the other entries and the order they are
\* visited in.
C4_InvalidKeyIsTypeError ==
    (SubstitutionCalled /\ HasInvalidKey) =>
        /\ last.exc = "TypeError"
        /\ target = NoTarget

\* C5: a TargetSubstitution that was constructed, attached to its message,
\* holds only keys (start, end) with 0 <= start < end <= len(text) of that
\* message; no key has a negative start.
C5_RangesWithinText ==
    (/\ target.cls = "EFBMsgTargetSubstitution"
     /\ given.untouched
     /\ msg.target = TargetRef)
    => \A n \in 1..Len(subs) :
           /\ RangeKey(subs[n][1])
           /\ 0 <= subs[n][1][2][1][2]
           /\ subs[n][1][2][2][2] <= Len(msg.text)

ConcreteOps == {"EFBMsgLinkAttribute", "EFBMsgLocationAttribute",
                "EFBMsgStatusAttribute", "EFBMsgCommandAttribute",
                "EFBMsgTargetMessage", "EFBMsgTargetSubstitution"}

\* C6: constructing EFBMsgAttribute or EFBMsgTarget directly raises
\* NotImplementedError (the specification's InstantiationError), and
\* constructing a concrete variant never does.
C6_AbstractBasesRaiseInstantiationError ==
    /\ last.op \in {"EFBMsgAttribute", "EFBMsgTarget"} =>
           last.exc = "NotImplementedError"
    /\ last.op \in ConcreteOps => last.exc # "NotImplementedError"

\* What the live instances hold in their containers.
StoredItems ==
    <<cmd, cattr, ListItems(cmd.args), DictItems(cmd.kwargs),
      ListItems(cattr.commands)>>

\* C7: no mutation by the caller of a container it passed (append, pop,
\* set a key, delete a key) changes what a Command holds in args and
\* kwargs or what a CommandAttribute holds in commands.
C7_StoredContainersIndependent ==
    [][last'.op \in CallerOps => StoredItems' = StoredItems]_vars

\* A Command and a CommandAttribute built from the caller's list and dict,
\* which the caller has changed since: the instances hold something else.
C7_Witness ==
    /\ cmd.cls = "EFBMsgCommand" /\ given.args /\ given.kwargs
    /\ cattr.cls = "EFBMsgCommandAttribute" /\ given.commands
    /\ last.op = "list.append"
    /\ ListItems(cmd.args) # lists[CallerListRef]
    /\ DictItems(cmd.kwargs) # dicts[CallerDictRef]
    /\ ListItems(cattr.commands) # lists[CallerListRef]

\* C8: CommandAttribute(commands) succeeds exactly when commands is a list,
\* not empty, of Command instances only; otherwise it raises ValueError
\* (the specification's ValidationError) and yields no instance.
C8_CommandAttributeValidation ==
    last.op = "EFBMsgCommandAttribute" =>
        LET commands == last.args[1]
            items == ListItems(commands)
            wellFormed == /\ commands[1] = "list"
                          /\ items # << >>
                          /\ \A n \in 1..Len(items) : items[n][1] = "EFBMsgCommand"
        IN  /\ wellFormed => /\ last.exc = "None"
                             /\ cattr.cls = "EFBMsgCommandAttribute"
                             /\ ListItems(cattr.commands) = items
            /\ ~wellFormed => /\ last.exc = "ValueError"
                              /\ cattr = NoCommandAttribute

\* A CommandAttribute built from a list of two commands.
C8_Witness ==
    /\ last.op = "EFBMsgCommandAttribute"
    /\ last.exc = "None"
    /\ Len(ListItems(cattr.commands)) = 2

\* C9: LinkAttribute succeeds for a title and a url that are present and
\* not empty, and stores title, url, description and image as supplied
\* (None when omitted); with title or url omitted it raises ValueError
\* (the specification's ValidationError).
C9_LinkAttributeRoundTrip ==
    last.op = "EFBMsgLinkAttribute" =>
        LET title == last.args[1]
            description == last.args[2]
            image == last.args[3]
            url == last.args[4]
        IN  /\ (title \notin {None, EmptyStr} /\ url \notin {None, EmptyStr}) =>
                   /\ last.exc = "None"
                   /\ attr.cls = "EFBMsgLinkAttribute"
                   /\ attr.title = title
                   /\ attr.url = url
                   /\ attr.description = description
                   /\ attr.image = image
            /\ (title = None \/ url = None) =>
                   /\ last.exc = "ValueError"
                   /\ attr = NoAttr

\* A link built from a title and a url alone: description and image absent.
C9_Witness ==
    /\ last.op = "EFBMsgLinkAttribute"
    /\ last.exc = "None"
    /\ attr.title = Str(1)
    /\ attr.url = Str(2)
    /\ attr.description = None
    /\ attr.image = None

\* C10: origin and destination of a message are present in every state,
\* from its construction on; right after construction text is "", the
\* flags are false, uid, attributes, target and member are absent and
\* vendor_specific is empty.
C10_OriginDestinationPresent ==
    /\ msg.origin # None
    /\ msg.destination # None
    /\ last.op = "EFBMsg" =>
           /\ msg.text = ""
           /\ msg.is_system = FALSE
           /\ msg.edit = FALSE
           /\ msg.uid = None
           /\ msg.attributes = None
           /\ msg.target = None
           /\ msg.member = None
           /\ msg.vendor_specific = {}

====
